---------------------------- MODULE Spec2Model ----------------------------
(***************************************************************************)
(* Model of the Lambda cost calculator: the pricing table and the          *)
(* nearest-tier lookup of consts.py, and calculate_cost and the scan,      *)
(* sort and report of print_lambda_cost in lambda_cost_calculator.py.      *)
(*                                                                         *)
(* Units.  The source computes in binary floating point; the model uses    *)
(* exact decimal fixed point:                                              *)
(*   money      in nano-dollars (1e-9 $): every price of the table and     *)
(*              PRICE_PER_INVOCATION is a whole number of nano-dollars;    *)
(*   durations  in tenths of a millisecond, so that an average duration    *)
(*              may be fractional (150.1 ms is 1501);                      *)
(*   a '{0:.3f}' string is the whole number of thousandths it shows.       *)
(***************************************************************************)
EXTENDS Integers, Sequences, FiniteSets, TLC

(* ------------------------------ bounds -------------------------------- *)
\* longest chain of pages list_functions serves for one region
MaxPages == 2
\* most functions listed in the whole account
MaxFunctions == 3
\* largest memory size handed to the estimator
MaxMemory == 3100

(* ------------------------------ consts.py ------------------------------ *)
PRICE_PER_INVOCATION == 200
PRICE_INTERVALS_MS == 100

\* the dict literal, in insertion order: <<memory size, price>>
MEMORY_TO_PRICE == <<
    <<128, 208>>, <<192, 313>>, <<256, 417>>, <<320, 521>>,
    <<384, 625>>, <<448, 729>>, <<512, 834>>, <<576, 938>>,
    <<640, 1042>>, <<704, 1146>>, <<768, 1250>>, <<832, 1354>>,
    <<896, 1459>>, <<960, 1563>>, <<1024, 1667>>, <<1088, 1771>>,
    <<1152, 1875>>, <<1216, 1980>>, <<1280, 2045>>, <<1344, 2188>>,
    <<1408, 2292>>, <<1472, 2396>>, <<1536, 2501>>, <<1600, 2605>>,
    <<1664, 2709>>, <<1728, 2813>>, <<1792, 2917>>, <<1856, 3021>>,
    <<1920, 3126>>, <<1984, 3230>>, <<2048, 3334>>, <<2112, 3438>>,
    <<2176, 3542>>, <<2240, 3647>>, <<2304, 3751>>, <<2368, 3855>>,
    <<2432, 3959>>, <<2496, 4063>>, <<2560, 4168>>, <<2624, 4272>>,
    <<2688, 4376>>, <<2752, 4480>>, <<2816, 4584>>, <<2880, 4688>>,
    <<2944, 4793>>, <<3008, 4897>> >>

\* list(MEMORY_TO_PRICE.keys())
Keys == [i \in 1..Len(MEMORY_TO_PRICE) |-> MEMORY_TO_PRICE[i][1]]

\* MEMORY_TO_PRICE[memory]
PriceOf(memory) ==
    LET i == CHOOSE i \in 1..Len(MEMORY_TO_PRICE) : MEMORY_TO_PRICE[i][1] = memory
    IN  MEMORY_TO_PRICE[i][2]

Abs(x) == IF x < 0 THEN -x ELSE x

\* min(list, key=...), keys[i] being the key of list[i]: the first element
\* of the list whose key is minimal
PyMin(list, keys) ==
    LET i == CHOOSE i \in 1..Len(list) :
                 \A j \in 1..Len(list) :
                     \/ keys[j] > keys[i]
                     \/ keys[j] = keys[i] /\ j >= i
    IN  list[i]

\* the last element of the list whose key is minimal
PyMinLast(list, keys) ==
    LET i == CHOOSE i \in 1..Len(list) :
                 \A j \in 1..Len(list) :
                     \/ keys[j] > keys[i]
                     \/ keys[j] = keys[i] /\ j <= i
    IN  list[i]

\* faulty variant: the key is the signed difference (abs dropped)
get_price_by_memory_signed(memory_size) ==
    LET function_memory ==
            PyMin(Keys, [i \in 1..Len(Keys) |-> Keys[i] - memory_size])
    IN  PriceOf(function_memory)

\* faulty variant: of the tiers at the least distance the last one is taken
get_price_by_memory_last(memory_size) ==
    LET function_memory ==
            PyMinLast(Keys, [i \in 1..Len(Keys) |-> Abs(Keys[i] - memory_size)])
    IN  PriceOf(function_memory)

\* key=lambda x: abs(x - memory_size)
get_price_by_memory(memory_size) ==
    LET function_memory ==
            PyMin(Keys, [i \in 1..Len(Keys) |-> Abs(Keys[i] - memory_size)])
    IN  PriceOf(function_memory)

\* get_price_by_memory tabulated over the memory sizes of the model, so
\* that it is computed once for each of them
PriceByMemory == [memory_size \in 1..MaxMemory |-> get_price_by_memory(memory_size)]

(* ----------------------- lambda_cost_calculator.py --------------------- *)
\* RESULT_NA = 'N/A'; a display field is the marker or a number
RESULT_NA == [na |-> TRUE, v |-> 0]
Num(n) == [na |-> FALSE, v |-> n]

\* the truncated quotient
ceil_floor(num, den) == num \div den

\* math.ceil(num / den) for num >= 0, den > 0
ceil(num, den) == (num + den - 1) \div den

\* faulty variant: a function without a duration costs nothing
calculate_cost_idle_free(avg_duration, sum_invocations, memory_size) ==
    IF avg_duration = 0
      THEN 0
      ELSE ceil(avg_duration, PRICE_INTERVALS_MS * 10) *
           sum_invocations *
           PriceByMemory[memory_size] +
           sum_invocations * PRICE_PER_INVOCATION

\* faulty variant: the number of intervals is the truncated quotient
calculate_cost_floor(avg_duration, sum_invocations, memory_size) ==
    ceil_floor(avg_duration, PRICE_INTERVALS_MS * 10) *
    sum_invocations *
    PriceByMemory[memory_size] +
    sum_invocations * PRICE_PER_INVOCATION

\* avg_duration in tenths of a millisecond, the result in nano-dollars;
\* PriceByMemory[memory_size] is get_price_by_memory(memory_size)
calculate_cost(avg_duration, sum_invocations, memory_size) ==
    ceil(avg_duration, PRICE_INTERVALS_MS * 10) *
    sum_invocations *
    PriceByMemory[memory_size] +
    sum_invocations * PRICE_PER_INVOCATION

\* int(avg_duration): truncation to whole milliseconds
int(tenths) == tenths \div 10

\* '{0:.3f}'.format(cost): nano-dollars rounded to the nearest thousandth
\* (an exact half goes to the even neighbour)
Format3(cost) ==
    LET q == cost \div 1000000
        r == cost % 1000000
    IN  IF r > 500000 \/ (r = 500000 /\ q % 2 = 1) THEN q + 1 ELSE q

TABLE_HEADERS == <<
    "Function",
    "Region",
    "Memory (MB)",
    "Average Running Duration in the Last Day (ms)",
    "Number of Invocations in the Last Day",
    "Cost in the Last Day ($)",
    "Monthly Cost Estimation ($)" >>
CONSOLE_TABLE_HEADERS == <<
    "Function",
    "Region",
    "Cost in the Last Day ($)",
    "Monthly Cost Estimation ($)" >>

\* faulty variant: the invocation field tests the invocation count, not the duration
Row_mixed(function_data, reg, avg_duration, sum_invocations, period_cost) ==
    << function_data.FunctionName,
       reg,
       function_data.MemorySize,
       IF avg_duration = 0 THEN RESULT_NA ELSE Num(int(avg_duration)),
       IF sum_invocations = 0 THEN RESULT_NA ELSE Num(sum_invocations),
       IF avg_duration = 0 THEN RESULT_NA ELSE Num(Format3(period_cost)),
       IF avg_duration = 0 THEN RESULT_NA ELSE Num(Format3(period_cost * 30)) >>

\* the tuple appended to lambdas_data; x[0]..x[6] of the source are
\* elements 1..7 here
Row(function_data, reg, avg_duration, sum_invocations, period_cost) ==
    << function_data.FunctionName,
       reg,
       function_data.MemorySize,
       IF avg_duration = 0 THEN RESULT_NA ELSE Num(int(avg_duration)),
       IF avg_duration = 0 THEN RESULT_NA ELSE Num(sum_invocations),
       IF avg_duration = 0 THEN RESULT_NA ELSE Num(Format3(period_cost)),
       IF avg_duration = 0 THEN RESULT_NA ELSE Num(Format3(period_cost * 30)) >>

\* key=lambda x: 0 if x[5] == RESULT_NA else float(x[5])
SortKey(x) == IF x[6] = RESULT_NA THEN 0 ELSE x[6].v

\* faulty variant: an element goes in front of the elements whose key equals its own
\* (the list sorted ascending and then reversed)
Insert_reversing(perm, i, data) ==
    LET k == Cardinality({q \in 1..Len(perm) :
                              SortKey(data[perm[q]]) > SortKey(data[i])})
    IN  SubSeq(perm, 1, k) \o <<i>> \o SubSeq(perm, k + 1, Len(perm))

\* one step of the stable descending sort: index i goes behind every index
\* already placed whose key is greater than or equal to its own
Insert(perm, i, data) ==
    LET k == Cardinality({q \in 1..Len(perm) :
                              SortKey(data[perm[q]]) >= SortKey(data[i])})
    IN  SubSeq(perm, 1, k) \o <<i>> \o SubSeq(perm, k + 1, Len(perm))

RECURSIVE SortPerm(_, _)
\* lambdas_data.sort(key=..., reverse=True), as the permutation it applies:
\* element p of the result is the index the row had before the sort
SortPerm(data, n) ==
    IF n = 0 THEN << >> ELSE Insert(SortPerm(data, n - 1), n, data)

\* print_table_to_console: the minified rows under the console headers
ConsoleTable(data) ==
    <<CONSOLE_TABLE_HEADERS>> \o
    [i \in 1..Len(data) |-> <<data[i][1], data[i][2], data[i][6], data[i][7]>>]

(* ------------------------------ inputs --------------------------------- *)
\* the list list_available_lambda_regions() returns
Regions == <<"us-east-1", "eu-west-1">>
NumRegions == Len(Regions)
\* memory sizes of the listed functions
Mems == {128, 192}
\* average durations CloudWatch reports (tenths of a ms; 0: no datapoint)
Durations == {0, 2505}
\* invocation sums CloudWatch reports (0: no datapoint)
Invocations == {0, 1000}
\* arguments of the estimator
CallDurations == {0, 10, 1000, 1001, 1010, 1500, 2500}
CallInvocations == {0, 1000}

SeqsUpTo(S, n) == UNION {[1..k -> S] : k \in 0..n}

RECURSIVE Flatten(_)
Flatten(ss) == IF ss = << >> THEN << >> ELSE Head(ss) \o Flatten(Tail(ss))

\* the finite chains of pages list_functions can serve for one region when
\* at most cap functions remain to be listed; a page may be empty
Chains(cap) ==
    { [p \in 1..Len(shape) |->
          [i \in 1..Len(shape[p]) |->
              [FunctionName |-> <<p, i>>, MemorySize |-> shape[p][i]]]] :
      shape \in { s \in SeqsUpTo(SeqsUpTo(Mems, cap), MaxPages) :
                      Len(s) >= 1 /\ Len(Flatten(s)) <= cap } }

(* ------------------------------- state --------------------------------- *)
VARIABLES
    pc,                 \* position in print_lambda_cost, or in the estimator call
    region,             \* index in Regions of the region of the for loop
    pages,              \* the chain of pages the region's listing consists of
    page,               \* index of the page held in response
    fn,                 \* index of function_data in functions
    next_marker,        \* -1: None, 0: '', k > 0: the marker of page k
    lambdas_data,
    total_monthly_cost,
    stdout,             \* what has been printed
    csv_file,           \* the lines written to args.csv
    records,            \* history: the usage records in discovery order
    order,              \* history: order[p] is the discovery index of row p
    listed,             \* history: every function of every page of the regions begun
    call,               \* arguments of an estimator call
    result              \* its results

vars == <<pc, region, pages, page, fn, next_marker, lambdas_data,
          total_monthly_cost, stdout, csv_file, records, order, listed,
          call, result>>

scan == <<region, pages, page, fn, next_marker>>
history == <<records, order, listed>>
output == <<stdout, csv_file>>
estimator == <<call, result>>

NoCall == [memory_size |-> 0, avg_duration |-> 0, sum_invocations |-> 0]
NoResult == [price |-> 0, period_cost |-> 0, monthly_cost |-> 0]

Init ==
    /\ pc = "for_region"
    /\ region = 1
    /\ pages = << >>
    /\ page = 0
    /\ fn = 0
    /\ next_marker = -1
    /\ lambdas_data = << >>
    /\ total_monthly_cost = 0
    /\ stdout = << >>
    /\ csv_file = << >>
    /\ records = << >>
    /\ order = << >>
    /\ listed = << >>
    /\ call = NoCall
    /\ result = NoResult

\* response['Functions'] and 'NextMarker' in response
functions == pages[page]
HasNextMarker == page < Len(pages)

\* lines 126-131: the next region; the clients, next_marker = None and the
\* first list_functions()
StartRegion ==
    /\ pc = "for_region"
    /\ region <= NumRegions
    /\ \E chain \in Chains(MaxFunctions - Len(listed)) :
          /\ pages' = chain
          /\ listed' = listed \o
                [i \in 1..Len(Flatten(chain)) |->
                    [region |-> Regions[region],
                     FunctionName |-> Flatten(chain)[i].FunctionName,
                     MemorySize |-> Flatten(chain)[i].MemorySize]]
    /\ page' = 1
    /\ next_marker' = -1
    /\ pc' = "while"
    /\ UNCHANGED <<region, fn, lambdas_data, total_monthly_cost, records, order>>
    /\ UNCHANGED <<output, estimator>>

\* line 132 false: the while loop ends and the for loop advances
WhileExit ==
    /\ pc = "while"
    /\ next_marker = 0
    /\ region' = region + 1
    /\ pc' = "for_region"
    /\ UNCHANGED <<pages, page, fn, next_marker, lambdas_data, total_monthly_cost>>
    /\ UNCHANGED <<history, output, estimator>>

\* lines 132-136: the body begins; an empty page continues the loop
WhileBody ==
    /\ pc = "while"
    /\ next_marker # 0
    /\ next_marker' = 0
    /\ IF functions = << >>
         THEN pc' = "while" /\ fn' = fn
         ELSE pc' = "for_function" /\ fn' = 1
    /\ UNCHANGED <<region, pages, page, lambdas_data, total_monthly_cost>>
    /\ UNCHANGED <<history, output, estimator>>

\* faulty variant: a row shown as not-available adds nothing to the total
ProcessFunction_skip_na ==
    /\ pc = "for_function"
    /\ fn <= Len(functions)
    /\ \E sum_invocations \in Invocations, avg_duration \in Durations :
          LET function_data == functions[fn]
              period_cost == calculate_cost(avg_duration, sum_invocations,
                                            function_data.MemorySize)
          IN  /\ lambdas_data' = Append(lambdas_data,
                      Row(function_data, Regions[region], avg_duration,
                          sum_invocations, period_cost))
              /\ total_monthly_cost' = IF avg_duration = 0
                                       THEN total_monthly_cost
                                       ELSE total_monthly_cost + period_cost * 30
              /\ records' = Append(records,
                      [region |-> Regions[region],
                       FunctionName |-> function_data.FunctionName,
                       MemorySize |-> function_data.MemorySize,
                       avg_duration |-> avg_duration,
                       sum_invocations |-> sum_invocations])
    /\ order' = Append(order, Len(order) + 1)
    /\ fn' = fn + 1
    /\ UNCHANGED <<pc, region, pages, page, next_marker, listed>>
    /\ UNCHANGED <<output, estimator>>

\* lines 138-172: one function; both metrics are fetched, the cost is
\* computed, the row is appended and the total grows
ProcessFunction ==
    /\ pc = "for_function"
    /\ fn <= Len(functions)
    /\ \E sum_invocations \in Invocations, avg_duration \in Durations :
          LET function_data == functions[fn]
              period_cost == calculate_cost(avg_duration, sum_invocations,
                                            function_data.MemorySize)
          IN  /\ lambdas_data' = Append(lambdas_data,
                      Row(function_data, Regions[region], avg_duration,
                          sum_invocations, period_cost))
              /\ total_monthly_cost' = total_monthly_cost + period_cost * 30
              /\ records' = Append(records,
                      [region |-> Regions[region],
                       FunctionName |-> function_data.FunctionName,
                       MemorySize |-> function_data.MemorySize,
                       avg_duration |-> avg_duration,
                       sum_invocations |-> sum_invocations])
    /\ order' = Append(order, Len(order) + 1)
    /\ fn' = fn + 1
    /\ UNCHANGED <<pc, region, pages, page, next_marker, listed>>
    /\ UNCHANGED <<output, estimator>>

\* lines 174-177: after the last function of the page
EndOfPage ==
    /\ pc = "for_function"
    /\ fn > Len(functions)
    /\ IF HasNextMarker
         THEN /\ next_marker' = page + 1
              /\ page' = page + 1
         ELSE UNCHANGED <<next_marker, page>>
    /\ pc' = "while"
    /\ UNCHANGED <<region, pages, fn, lambdas_data, total_monthly_cost>>
    /\ UNCHANGED <<records, order, listed, output, estimator>>

\* a listing or a metric fetch raises, or the user interrupts: nothing in
\* print_lambda_cost catches it and the function is left
Fail ==
    /\ \/ pc = "for_region" /\ region <= NumRegions
       \/ pc \in {"while", "for_function"}
    /\ pc' = "failed"
    /\ UNCHANGED <<scan, lambdas_data, total_monthly_cost>>
    /\ UNCHANGED <<history, output, estimator>>

\* faulty variant: the sort and the prints sit inside the region loop
Report_in_loop ==
    /\ pc = "for_region"
    /\ order' = SortPerm(lambdas_data, Len(lambdas_data))
    /\ lambdas_data' = [p \in 1..Len(lambdas_data) |-> lambdas_data[order'[p]]]
    /\ stdout' = << [table |-> ConsoleTable(lambdas_data')],
                    [total |-> Format3(total_monthly_cost)] >>
    /\ pc' = "printed"
    /\ UNCHANGED <<scan, total_monthly_cost, csv_file, records, listed>>
    /\ UNCHANGED estimator

\* lines 179-186: every region is done; sort, print the table and the total
Report ==
    /\ pc = "for_region"
    /\ region > NumRegions
    /\ order' = SortPerm(lambdas_data, Len(lambdas_data))
    /\ lambdas_data' = [p \in 1..Len(lambdas_data) |-> lambdas_data[order'[p]]]
    /\ stdout' = << [table |-> ConsoleTable(lambdas_data')],
                    [total |-> Format3(total_monthly_cost)] >>
    /\ pc' = "printed"
    /\ UNCHANGED <<scan, total_monthly_cost, csv_file, records, listed>>
    /\ UNCHANGED estimator

\* lines 188-189: no --csv
ReturnWithoutCsv ==
    /\ pc = "printed"
    /\ pc' = "done"
    /\ UNCHANGED <<scan, lambdas_data, total_monthly_cost>>
    /\ UNCHANGED <<history, output, estimator>>

\* lines 191-196: the headers go in front and every row is written
WriteCsv ==
    /\ pc = "printed"
    /\ lambdas_data' = <<TABLE_HEADERS>> \o lambdas_data
    /\ csv_file' = lambdas_data'
    /\ pc' = "done"
    /\ UNCHANGED <<scan, total_monthly_cost, stdout>>
    /\ UNCHANGED <<history, estimator>>

Next ==
    \/ StartRegion
    \/ WhileExit
    \/ WhileBody
    \/ ProcessFunction
    \/ EndOfPage
    \/ Fail
    \/ Report
    \/ ReturnWithoutCsv
    \/ WriteCsv

Spec == Init /\ [][Next]_vars

(* --------------------- the estimator on its own ------------------------ *)
InitCalc ==
    /\ pc = "call"
    /\ call \in [memory_size : 1..MaxMemory,
                 avg_duration : CallDurations,
                 sum_invocations : CallInvocations]
    /\ result = NoResult
    /\ region = 1
    /\ pages = << >>
    /\ page = 0
    /\ fn = 0
    /\ next_marker = -1
    /\ lambdas_data = << >>
    /\ total_monthly_cost = 0
    /\ stdout = << >>
    /\ csv_file = << >>
    /\ records = << >>
    /\ order = << >>
    /\ listed = << >>

\* lines 153-157 and 169-172 for one function: the price of its memory
\* size, the cost of the day and the monthly estimate
Estimate ==
    /\ pc = "call"
    /\ result' = [price |-> get_price_by_memory(call.memory_size),
                  period_cost |-> calculate_cost(call.avg_duration,
                                                 call.sum_invocations,
                                                 call.memory_size),
                  monthly_cost |-> calculate_cost(call.avg_duration,
                                                  call.sum_invocations,
                                                  call.memory_size) * 30]
    /\ pc' = "returned"
    /\ UNCHANGED <<scan, lambdas_data, total_monthly_cost, call>>
    /\ UNCHANGED <<history, output>>

NextCalc == Estimate

SpecCalc == InitCalc /\ [][NextCalc]_vars

(* ------------------------------ properties ----------------------------- *)
Tiers == {Keys[i] : i \in 1..Len(Keys)}

\* two tiers with no tier between them
Adjacent(lo, hi) ==
    /\ lo \in Tiers /\ hi \in Tiers /\ lo < hi
    /\ ~ \E t \in Tiers : lo < t /\ t < hi

\* C1: for every memory size the price returned is the price of a tier at
\* the least absolute distance from it, and a memory size that is a tier
\* gets exactly that tier's price.
C1_NearestTier ==
    pc = "returned" =>
        LET m == call.memory_size
        IN  /\ \E t \in Tiers :
                  /\ result.price = PriceOf(t)
                  /\ \A u \in Tiers : Abs(t - m) <= Abs(u - m)
            /\ m \in Tiers => result.price = PriceOf(m)

\* a memory size strictly between two tiers has been priced at the nearer one
C1_Witness ==
    /\ pc = "returned"
    /\ call.memory_size = 200
    /\ result.price = 313

\* C2: a memory size at the exact midpoint of two adjacent tiers gets the
\* price of the lower tier.
C2_MidpointLowerTier ==
    pc = "returned" =>
        LET m == call.memory_size
        IN  \A lo \in Tiers, hi \in Tiers :
                (m - lo = hi - m /\ Adjacent(lo, hi)) =>
                    result.price = PriceOf(lo)

\* 160, halfway between 128 and 192, has been priced as 128
C2_Witness ==
    /\ pc = "returned"
    /\ call.memory_size = 160
    /\ result.price = 208

\* the least k with 100 * k >= d, d in tenths of a millisecond
Intervals(d) ==
    CHOOSE k \in 0..(d + 1) :
        /\ PRICE_INTERVALS_MS * 10 * k >= d
        /\ \A j \in 0..(k - 1) : PRICE_INTERVALS_MS * 10 * j < d

\* C3: the daily cost is k * n * price(m) + n * PRICE_PER_INVOCATION with k
\* the least integer such that 100 * k >= d, the monthly estimate is 30
\* times the daily cost; 1 ms and 100 ms are 1 interval, 101 ms and 150 ms
\* are 2, 250 ms are 3; no duration and no invocation cost 0; 250 ms, 1000
\* invocations and 512 MB cost 0.002702 a day and 0.08106 a month.
C3_CostFormula ==
    pc = "returned" =>
        LET d == call.avg_duration
            n == call.sum_invocations
            m == call.memory_size
            k == Intervals(d)
        IN  /\ result.period_cost =
                   k * n * get_price_by_memory(m) + n * PRICE_PER_INVOCATION
            /\ result.monthly_cost = 30 * result.period_cost
            /\ d \in {10, 1000} => k = 1
            /\ d \in {1010, 1500} => k = 2
            /\ d = 2500 => k = 3
            /\ (d = 0 /\ n = 0) => result.period_cost = 0
            /\ (d = 2500 /\ n = 1000 /\ m = 512) =>
                   /\ result.period_cost = 2702000
                   /\ result.monthly_cost = 81060000

\* the end-to-end scenario of the specification has been estimated
C3_Witness ==
    /\ pc = "returned"
    /\ call = [memory_size |-> 512, avg_duration |-> 2500,
               sum_invocations |-> 1000]
    /\ result.period_cost = 2702000

\* the step that appends a row for a record without a duration
AppendsIdle ==
    /\ Len(records') = Len(records) + 1
    /\ records'[Len(records')].avg_duration = 0

\* C4 as stated: a record whose average duration is 0 has a daily cost of
\* exactly 0 and adds exactly 0 to total_monthly_cost, whatever its
\* invocation count.
C4_IdleCostsNothing ==
    [][AppendsIdle =>
          LET r == records'[Len(records')]
          IN  /\ calculate_cost(r.avg_duration, r.sum_invocations,
                                r.MemorySize) = 0
              /\ total_monthly_cost' = total_monthly_cost]_vars

\* C4 amended: a record whose average duration is 0 has the daily cost
\* sum_invocations * PRICE_PER_INVOCATION, whatever its memory size, and
\* adds 30 times that to total_monthly_cost; this is 0 exactly when the
\* invocation count is 0.
C4_IdleCostsRequests ==
    [][AppendsIdle =>
          LET r == records'[Len(records')]
          IN  /\ total_monthly_cost' = total_monthly_cost +
                     30 * r.sum_invocations * PRICE_PER_INVOCATION
              /\ (total_monthly_cost' = total_monthly_cost) <=>
                     (r.sum_invocations = 0)]_vars

\* a record with 1000 invocations and no duration has been added
C4_Witness ==
    /\ Len(records) = 1
    /\ records[1].avg_duration = 0
    /\ records[1].sum_invocations = 1000
    /\ lambdas_data[1][7] = RESULT_NA
    /\ total_monthly_cost = 6000000

\* the rows of the report (the headers WriteCsv puts in front left out)
DataRows == IF csv_file # << >> THEN Tail(lambdas_data) ELSE lambdas_data

\* the usage record row p of the report was made from
RecordOf(p) == records[order[p]]

\* the monthly cost of row p, a not-available row counting as 0
MonthlyOf(p) ==
    IF DataRows[p][7] = RESULT_NA
      THEN 0
      ELSE 30 * calculate_cost(RecordOf(p).avg_duration,
                               RecordOf(p).sum_invocations,
                               RecordOf(p).MemorySize)

\* C5: after the sort, of any two rows the earlier one has a monthly cost
\* greater than or equal to that of the later one, a not-available row
\* counting as 0.
C5_DescendingMonthlyCost ==
    pc = "printed" =>
        \A p \in 1..Len(lambdas_data), q \in 1..Len(lambdas_data) :
            p < q => MonthlyOf(p) >= MonthlyOf(q)

\* C6: the four display fields of a row are all the not-available marker
\* when the average duration of its record is 0, whatever the invocation
\* count, and all numbers otherwise.
C6_AllOrNothing ==
    \A p \in 1..Len(DataRows) :
        LET x == DataRows[p]
        IN  IF RecordOf(p).avg_duration = 0
              THEN \A f \in 4..7 : x[f] = RESULT_NA
              ELSE \A f \in 4..7 : x[f].na = FALSE

\* the report holds a not-available row of a record with invocations next
\* to a numeric row
C6_Witness ==
    /\ pc = "printed"
    /\ \E p \in 1..Len(lambdas_data) :
          /\ RecordOf(p).avg_duration = 0
          /\ RecordOf(p).sum_invocations = 1000
          /\ lambdas_data[p][5] = RESULT_NA
    /\ \E p \in 1..Len(lambdas_data) : lambdas_data[p][5] = Num(1000)

\* the usage of a record: what its cost depends on
UsageOf(r) == [MemorySize |-> r.MemorySize, avg_duration |-> r.avg_duration,
               sum_invocations |-> r.sum_invocations]

\* how many of the records processed have the usage u
Occurrences(u) ==
    Cardinality({i \in 1..Len(records) : UsageOf(records[i]) = u})

RECURSIVE MonthlySum(_)
\* the sum of 30 times the daily cost over the records whose usage is in S,
\* taken usage by usage: the order of the records plays no part in it
MonthlySum(S) ==
    IF S = {} THEN 0
    ELSE LET u == CHOOSE u \in S : TRUE
         IN  Occurrences(u) * 30 * calculate_cost(u.avg_duration,
                                                  u.sum_invocations,
                                                  u.MemorySize)
             + MonthlySum(S \ {u})

\* C7: total_monthly_cost is the sum, over the records processed, of 30
\* times the daily cost, not-available rows included; it is a function of
\* the bag of records, so the order they are supplied in does not matter.
C7_TotalIsSum ==
    total_monthly_cost =
        MonthlySum({UsageOf(records[i]) : i \in 1..Len(records)})

\* a not-available record with a cost and a costlier numeric record have
\* been totalled, the cheaper one first
C7_Witness ==
    /\ pc = "printed"
    /\ Len(records) = 2
    /\ records[1].avg_duration = 0
    /\ records[1].sum_invocations = 1000
    /\ records[2].avg_duration = 2505
    /\ records[2].sum_invocations = 1000
    /\ records[2].MemorySize = 192
    /\ total_monthly_cost = 6000000 + 34170000

\* C8: two rows with equal monthly cost, a not-available row counting as 0,
\* stand in the sorted report in the order of their discovery.
C8_StableSort ==
    pc = "printed" =>
        \A p \in 1..Len(lambdas_data), q \in 1..Len(lambdas_data) :
            (p < q /\ MonthlyOf(p) = MonthlyOf(q)) => order[p] < order[q]

\* a not-available row and a genuine zero-cost row tie behind a row that
\* the sort has moved in front of them
C8_Witness ==
    /\ pc = "printed"
    /\ Len(lambdas_data) = 3
    /\ order = <<3, 1, 2>>
    /\ lambdas_data[2][6] = RESULT_NA
    /\ lambdas_data[3][6] = Num(0)

\* C9: the table, the total and the CSV file are produced only after the
\* loop over the regions has finished with the last region, and a scan
\* that failed or was interrupted has produced none of them.
C9_NoPartialReport ==
    /\ (stdout # << >> \/ csv_file # << >>) =>
           (region > NumRegions /\ pc \in {"printed", "done"})
    /\ pc = "failed" => (stdout = << >> /\ csv_file = << >>)

\* the scan failed after rows had been collected
C9_Witness ==
    /\ pc = "failed"
    /\ Len(lambdas_data) >= 1
    /\ total_monthly_cost > 0
    /\ stdout = << >>

\* who a record or a listed function is
IdentityOf(r) == [region |-> r.region, FunctionName |-> r.FunctionName,
                  MemorySize |-> r.MemorySize]

\* C10: the final report has exactly one row, and the total one cost
\* contribution, for each function of each page of each region.
C10_OneRowPerFunction ==
    pc = "printed" =>
        /\ Len(lambdas_data) = Len(listed)
        /\ [i \in 1..Len(records) |-> IdentityOf(records[i])] = listed
=============================================================================
